---------------------------- MODULE Spec2Model ----------------------------
(***************************************************************************)
(* A model of the text chunking engine of src/src/text_chunker.py          *)
(* (class TextChunker).                                                    *)
(*                                                                         *)
(* A text is a sequence of characters.  The token codec (tiktoken in the   *)
(* source, an external library) is modelled by a small concrete codec of   *)
(* the same shape: a maximal run of whitespace is one token (as "\n\n" is  *)
(* one token of cl100k_base) and every other character is one token.       *)
(* chunk_text, _split_large_section and _split_by_tokens are modelled one  *)
(* loop iteration per step, one action per branch of the loop body.        *)
(***************************************************************************)
EXTENDS Integers, Sequences, FiniteSets, TLC

VARIABLES
    pc,                    \* position of the caller / of chunk_text
    max_tokens, overlap,   \* self.max_tokens, self.overlap
    text,                  \* the argument of chunk_text
    sections, si,          \* chunk_text: sections and the for-loop index
    chunks, current_chunk, current_tokens,   \* chunk_text locals
    sentences, sj,         \* _split_large_section: sentences and loop index
    large_chunks, large_current_chunk, large_current_tokens,
    tokens, start, token_chunks, chunk_id,   \* _split_by_tokens locals
    how, large_how, token_how,   \* history: how each chunk was emitted
    seed, large_seed,            \* history: overlap text seeding the accumulator
    stats_log,             \* the caller: records returned by get_statistics
    bi, all_faqs,          \* generate_faqs_batch: loop position and all_faqs
    gen_calls,             \* history: the generate_faqs_from_chunk calls made
    call,                  \* the last direct call of a helper and its result
    parked, active,        \* a second thread's chunk_text call on the same
                           \* TextChunker: its frame while the other thread runs,
                           \* and the thread whose frame the variables above hold
    interleaved,           \* history: a switch happened with both calls running
    codec_error,           \* history: the failure the token codec raised
    exc,                   \* the exception chunk_text ended with
    twin                   \* the two accumulator loops run side by side

config_vars == <<max_tokens, overlap>>
section_vars == <<sections, si, chunks, current_chunk, current_tokens, how, seed>>
sentence_vars == <<sentences, sj, large_chunks, large_current_chunk,
                   large_current_tokens, large_how, large_seed>>
token_vars == <<tokens, start, token_chunks, chunk_id, token_how>>
batch_vars == <<bi, all_faqs, gen_calls>>
thread_vars == <<parked, active, interleaved>>
error_vars == <<codec_error, exc>>
caller_vars == <<stats_log, batch_vars, call, thread_vars, error_vars, twin>>
vars == <<pc, text, config_vars, section_vars, sentence_vars, token_vars,
          caller_vars>>

----------------------------------------------------------------------------
(* Bounds of the model *)

MaxAtoms == 5
MaxTokens == 3
MaxOverlap == 2
MaxStatCalls == 2
MaxPipelineAtoms == 4
MaxFaqs == 1
MaxBatchChunks == 3
MaxDirectAtoms == 4
MaxConcurrentAtoms == 3

----------------------------------------------------------------------------
(* Characters and Python string helpers *)

NL == "\n"
SP == " "
Whitespace == {SP, NL}
Terminators == {".", "!", "?"}

Min(S) == CHOOSE x \in S : \A y \in S : x <= y
Max(S) == CHOOSE x \in S : \A y \in S : x >= y

\* str.strip(): drop leading and trailing whitespace
Strip(s) ==
    LET idx == {i \in 1..Len(s) : s[i] \notin Whitespace}
    IN  IF idx = {} THEN <<>> ELSE SubSeq(s, Min(idx), Max(idx))

\* Python's seq[a:b] with negative indices and clamping
PyIndex(i, n) == IF i < 0 THEN (IF i + n < 0 THEN 0 ELSE i + n)
                 ELSE (IF i > n THEN n ELSE i)

PySlice(s, a, b) ==
    LET lo == PyIndex(a, Len(s))
        hi == PyIndex(b, Len(s))
    IN  IF lo >= hi THEN <<>> ELSE SubSeq(s, lo + 1, hi)

\* the end of the maximal run of characters of C that starts at position i
RunEnd(s, i, C) ==
    Min({j \in i..Len(s) : j = Len(s) \/ s[j + 1] \notin C})

\* the elements of a set of integers in increasing order
Sorted(S) ==
    LET rank == [i \in S |-> Cardinality({j \in S : j <= i})]
    IN  [k \in 1..Cardinality(S) |-> CHOOSE i \in S : rank[i] = k]

\* [s.strip() for s in pieces]: the empty pieces are kept
StripAll_KeepsEmpty(pieces) == [k \in DOMAIN pieces |-> Strip(pieces[k])]

\* [s.strip() for s in pieces if s.strip()]
StripAll(pieces) ==
    SelectSeq([k \in DOMAIN pieces |-> Strip(pieces[k])], LAMBDA p : p # <<>>)

\* re.split: the pieces of s between the separators that start at the
\* positions of `starts` and are maximal runs of characters of C
SplitAt(s, starts, C) ==
    LET st == Sorted(starts)
        n == Len(st)
        from(k) == IF k = 1 THEN 1 ELSE RunEnd(s, st[k - 1], C) + 1
        to(k) == IF k = n + 1 THEN Len(s) ELSE st[k] - 1
    IN  [k \in 1..(n + 1) |-> SubSeq(s, from(k), to(k))]

----------------------------------------------------------------------------
(* The token codec: encode, decode *)

\* encoding.encode(text): a token is a whitespace run or one other character
Encode(s) ==
    LET starts == {i \in 1..Len(s) :
                      s[i] \notin Whitespace \/ i = 1 \/ s[i - 1] \notin Whitespace}
        st == Sorted(starts)
    IN  [k \in 1..Len(st) |->
            IF s[st[k]] \in Whitespace
            THEN SubSeq(s, st[k], RunEnd(s, st[k], Whitespace))
            ELSE SubSeq(s, st[k], st[k])]

\* encoding.decode(tokens): the concatenation of the tokens' texts
RECURSIVE Decode(_)
Decode(toks) ==
    IF Len(toks) = 0 THEN <<>>
    ELSE IF Len(toks) = 1 THEN toks[1]
    ELSE LET h == Len(toks) \div 2
         IN  Decode(SubSeq(toks, 1, h)) \o Decode(SubSeq(toks, h + 1, Len(toks)))

\* len(self.encoding.encode(text))
Count(s) == Len(Encode(s))

----------------------------------------------------------------------------
(* The splitters *)

\* _split_by_sections: re.split(r'\n\n+', text), stripped, empties dropped
SplitBySections(s) ==
    StripAll(SplitAt(s,
        {i \in 1..(Len(s) - 1) :
            s[i] = NL /\ s[i + 1] = NL /\ (i = 1 \/ s[i - 1] # NL)},
        {NL}))

\* _split_by_sentences: re.split(r'(?<=[.!?])\s+', text), stripped, empties
\* dropped
SplitBySentences(s) ==
    StripAll(SplitAt(s,
        {i \in 2..Len(s) : s[i] \in Whitespace /\ s[i - 1] \in Terminators},
        Whitespace))

\* _get_overlap_text taking the first tokens instead of the last
GetOverlapText_FirstTokens(s, overlap_tokens) ==
    IF s = <<>> \/ overlap_tokens <= 0 THEN <<>>
    ELSE LET toks == Encode(s)
         IN  IF Len(toks) <= overlap_tokens THEN s
             ELSE Decode(PySlice(toks, 0, overlap_tokens))

\* _get_overlap_text(text, overlap_tokens)
GetOverlapText(s, overlap_tokens) ==
    IF s = <<>> \/ overlap_tokens <= 0 THEN <<>>
    ELSE LET toks == Encode(s)
         IN  IF Len(toks) <= overlap_tokens THEN s
             ELSE Decode(PySlice(toks, -overlap_tokens, Len(toks)))


----------------------------------------------------------------------------
(* The inputs: configurations and texts *)

\* TextChunker(max_tokens=50, overlap=10) of the example usage
ExampleMaxTokens == 50
ExampleOverlap == 10

Letters(n) == [i \in 1..n |-> "a"]
Sentence(n) == Letters(n - 1) \o <<".">>

\* three paragraphs of 20, 40 and 60 tokens; the third is two sentences
ScenarioText ==
    Sentence(20) \o <<NL, NL>> \o Sentence(40) \o <<NL, NL>>
                 \o Sentence(30) \o <<SP>> \o Sentence(29)

Atoms == {<<"a">>, <<"b">>, <<".">>, <<SP>>, <<NL, NL>>}

RECURSIVE Flatten(_)
Flatten(ss) == IF ss = <<>> THEN <<>> ELSE Head(ss) \o Flatten(Tail(ss))

Texts ==
    {Flatten(f) : f \in UNION {[1..n -> Atoms] : n \in 0..MaxAtoms}}
        \cup {ScenarioText}

\* the constructor accepts any two integers
Configs ==
    ((0..MaxTokens) \X (0..MaxOverlap)) \cup {<<ExampleMaxTokens, ExampleOverlap>>}

----------------------------------------------------------------------------
(* Chunk records *)

Chunk(t, n, id) == [text |-> t, tokens |-> n, chunk_id |-> id]

\* history record: the path that emitted a chunk and the overlap text that
\* seeded it
How(via, sd) == [via |-> via, seed |-> sd]

----------------------------------------------------------------------------
(* The frame of a chunk_text call: its position and its locals, those of the
   _split_large_section and _split_by_tokens calls under it included *)

Frame(p, t, sv, nv, tv) ==
    [pc |-> p, text |-> t,
     sections |-> sv[1], si |-> sv[2], chunks |-> sv[3],
     current_chunk |-> sv[4], current_tokens |-> sv[5], how |-> sv[6],
     seed |-> sv[7],
     sentences |-> nv[1], sj |-> nv[2], large_chunks |-> nv[3],
     large_current_chunk |-> nv[4], large_current_tokens |-> nv[5],
     large_how |-> nv[6], large_seed |-> nv[7],
     tokens |-> tv[1], start |-> tv[2], token_chunks |-> tv[3],
     chunk_id |-> tv[4], token_how |-> tv[5]]

\* a thread that has not called chunk_text yet
NotCalled ==
    Frame("ready", <<>>, <<<<>>, 1, <<>>, <<>>, 0, <<>>, <<>>>>,
          <<<<>>, 1, <<>>, <<>>, 0, <<>>, <<>>>>, <<<<>>, 0, <<>>, 0, <<>>>>)

\* the locals of one accumulator loop, with the history of its decisions
Loop(cs, cur, n, ds) ==
    [chunks |-> cs, current_chunk |-> cur, current_tokens |-> n, decisions |-> ds]

----------------------------------------------------------------------------
(* Initial state and construction *)

Init ==
    /\ pc = "new"
    /\ max_tokens = 0 /\ overlap = 0
    /\ text = <<>>
    /\ sections = <<>> /\ si = 1
    /\ chunks = <<>> /\ current_chunk = <<>> /\ current_tokens = 0
    /\ sentences = <<>> /\ sj = 1
    /\ large_chunks = <<>> /\ large_current_chunk = <<>> /\ large_current_tokens = 0
    /\ tokens = <<>> /\ start = 0 /\ token_chunks = <<>> /\ chunk_id = 0
    /\ how = <<>> /\ large_how = <<>> /\ token_how = <<>>
    /\ seed = <<>> /\ large_seed = <<>>
    /\ stats_log = <<>>
    /\ bi = 1 /\ all_faqs = <<>> /\ gen_calls = <<>>
    /\ call = [fn |-> "none", text |-> <<>>, k |-> 0, result |-> <<>>]
    /\ parked = NotCalled
    /\ active = 1
    /\ interleaved = FALSE
    /\ codec_error = "none" /\ exc = "none"
    /\ twin = [units |-> <<>>, k |-> 0,
               section_loop |-> Loop(<<>>, <<>>, 0, <<>>),
               sentence_loop |-> Loop(<<>>, <<>>, 0, <<>>)]

\* TextChunker.__init__: stores both values, validates neither
Construct(m, o) ==
    /\ pc = "new"
    /\ max_tokens' = m
    /\ overlap' = o
    /\ pc' = "ready"
    /\ UNCHANGED <<caller_vars, text, section_vars, sentence_vars, token_vars>>

\* chunk_text, up to the start of the loop over the sections
ChunkText(t) ==
    /\ pc = "ready"
    /\ text' = t
    /\ sections' = SplitBySections(t)
    /\ si' = 1
    /\ chunks' = <<>> /\ current_chunk' = <<>> /\ current_tokens' = 0
    /\ how' = <<>> /\ seed' = <<>>
    /\ pc' = "sections"
    /\ UNCHANGED <<caller_vars, config_vars, sentence_vars, token_vars>>

----------------------------------------------------------------------------
(* chunk_text: the loop over the sections *)

section == sections[si]
section_tokens == Len(Encode(section))

\* the oversized section is split without saving the current chunk first
SectionOversize_NoFlush ==
    /\ pc = "sections" /\ si <= Len(sections)
    /\ section_tokens > max_tokens
    /\ sentences' = SplitBySentences(section)
    /\ sj' = 1
    /\ large_chunks' = <<>> /\ large_current_chunk' = <<>>
    /\ large_current_tokens' = 0
    /\ large_how' = <<>> /\ large_seed' = <<>>
    /\ pc' = "sentences"
    /\ UNCHANGED <<caller_vars, text, config_vars, section_vars, token_vars>>

\* the oversized section saves the current chunk and does not clear it
SectionOversize_KeepsAccumulator ==
    /\ pc = "sections" /\ si <= Len(sections)
    /\ section_tokens > max_tokens
    /\ IF current_chunk # <<>>
       THEN /\ chunks' = Append(chunks,
                    Chunk(Strip(current_chunk), current_tokens, Len(chunks)))
            /\ how' = Append(how, How("section_before_large", seed))
            /\ UNCHANGED <<current_chunk, current_tokens, seed>>
       ELSE UNCHANGED <<chunks, how, current_chunk, current_tokens, seed>>
    /\ sentences' = SplitBySentences(section)
    /\ sj' = 1
    /\ large_chunks' = <<>> /\ large_current_chunk' = <<>>
    /\ large_current_tokens' = 0
    /\ large_how' = <<>> /\ large_seed' = <<>>
    /\ pc' = "sentences"
    /\ UNCHANGED <<caller_vars, text, config_vars, sections, si, token_vars>>

\* the section itself is too large: save the current chunk if it exists and
\* enter _split_large_section(section)
SectionOversize ==
    /\ pc = "sections" /\ si <= Len(sections)
    /\ section_tokens > max_tokens
    /\ IF current_chunk # <<>>
       THEN /\ chunks' = Append(chunks,
                    Chunk(Strip(current_chunk), current_tokens, Len(chunks)))
            /\ how' = Append(how, How("section_before_large", seed))
            /\ current_chunk' = <<>>
            /\ current_tokens' = 0
            /\ seed' = <<>>
       ELSE UNCHANGED <<chunks, how, current_chunk, current_tokens, seed>>
    /\ sentences' = SplitBySentences(section)
    /\ sj' = 1
    /\ large_chunks' = <<>> /\ large_current_chunk' = <<>>
    /\ large_current_tokens' = 0
    /\ large_how' = <<>> /\ large_seed' = <<>>
    /\ pc' = "sentences"
    /\ UNCHANGED <<caller_vars, text, config_vars, sections, si, token_vars>>

\* the new chunk is started from the overlap text alone
SectionFlush_SeedOnly ==
    /\ pc = "sections" /\ si <= Len(sections)
    /\ ~(section_tokens > max_tokens)
    /\ current_tokens + section_tokens > max_tokens
    /\ IF current_chunk # <<>>
       THEN /\ chunks' = Append(chunks,
                    Chunk(Strip(current_chunk), current_tokens, Len(chunks)))
            /\ how' = Append(how, How("section_budget", seed))
       ELSE UNCHANGED <<chunks, how>>
    /\ LET overlap_text == GetOverlapText(current_chunk, overlap)
           new_chunk == overlap_text
       IN  /\ current_chunk' = new_chunk
           /\ current_tokens' = Len(Encode(new_chunk))
           /\ seed' = overlap_text
    /\ si' = si + 1
    /\ UNCHANGED <<caller_vars, pc, text, config_vars, sections, sentence_vars, token_vars>>

\* adding the section exceeds max: save the current chunk, start a new one
\* with the overlap text
SectionFlush ==
    /\ pc = "sections" /\ si <= Len(sections)
    /\ ~(section_tokens > max_tokens)
    /\ current_tokens + section_tokens > max_tokens
    /\ IF current_chunk # <<>>
       THEN /\ chunks' = Append(chunks,
                    Chunk(Strip(current_chunk), current_tokens, Len(chunks)))
            /\ how' = Append(how, How("section_budget", seed))
       ELSE UNCHANGED <<chunks, how>>
    /\ LET overlap_text == GetOverlapText(current_chunk, overlap)
           new_chunk == overlap_text \o <<NL, NL>> \o section
       IN  /\ current_chunk' = new_chunk
           /\ current_tokens' = Len(Encode(new_chunk))
           /\ seed' = overlap_text
    /\ si' = si + 1
    /\ UNCHANGED <<caller_vars, pc, text, config_vars, sections, sentence_vars, token_vars>>

\* add the section to the current chunk
SectionAppend ==
    /\ pc = "sections" /\ si <= Len(sections)
    /\ ~(section_tokens > max_tokens)
    /\ ~(current_tokens + section_tokens > max_tokens)
    /\ current_chunk' = IF current_chunk # <<>>
                        THEN current_chunk \o <<NL, NL>> \o section
                        ELSE section
    /\ current_tokens' = current_tokens + section_tokens
    /\ si' = si + 1
    /\ UNCHANGED <<caller_vars, pc, text, config_vars, sections, chunks, how, seed,
                   sentence_vars, token_vars>>

\* the return without the final chunk
Finish_NoFinalChunk ==
    /\ pc = "sections" /\ si > Len(sections)
    /\ pc' = "done"
    /\ UNCHANGED <<caller_vars, text, config_vars, section_vars, sentence_vars, token_vars>>

\* the loop over the sections ends one section early
Finish_BeforeLastSection ==
    /\ pc = "sections" /\ si >= Len(sections)
    /\ IF Strip(current_chunk) # <<>>
       THEN /\ chunks' = Append(chunks,
                    Chunk(Strip(current_chunk), current_tokens, Len(chunks)))
            /\ how' = Append(how, How("section_final", seed))
       ELSE UNCHANGED <<chunks, how>>
    /\ pc' = "done"
    /\ UNCHANGED <<caller_vars, text, config_vars, sections, si, current_chunk,
                   current_tokens, seed, sentence_vars, token_vars>>

\* the return that adds the final chunk without looking at its text
Finish_EmitsBlank ==
    /\ pc = "sections" /\ si > Len(sections)
    /\ chunks' = Append(chunks,
            Chunk(Strip(current_chunk), current_tokens, Len(chunks)))
    /\ how' = Append(how, How("section_final", seed))
    /\ pc' = "done"
    /\ UNCHANGED <<caller_vars, text, config_vars, sections, si, current_chunk,
                   current_tokens, seed, sentence_vars, token_vars>>

\* after the loop: add the final chunk and return
Finish ==
    /\ pc = "sections" /\ si > Len(sections)
    /\ IF Strip(current_chunk) # <<>>
       THEN /\ chunks' = Append(chunks,
                    Chunk(Strip(current_chunk), current_tokens, Len(chunks)))
            /\ how' = Append(how, How("section_final", seed))
       ELSE UNCHANGED <<chunks, how>>
    /\ pc' = "done"
    /\ UNCHANGED <<caller_vars, text, config_vars, sections, si, current_chunk,
                   current_tokens, seed, sentence_vars, token_vars>>

----------------------------------------------------------------------------
(* _split_large_section: the loop over the sentences *)

sentence == sentences[sj]
sentence_tokens == Len(Encode(sentence))

\* the oversized sentence saves the current chunk without looking at it
SentenceOversize_SavesUnconditionally ==
    /\ pc = "sentences" /\ sj <= Len(sentences)
    /\ sentence_tokens > max_tokens
    /\ large_chunks' = Append(large_chunks,
            Chunk(Strip(large_current_chunk), large_current_tokens,
                  Len(large_chunks)))
    /\ large_how' = Append(large_how, How("sentence_before_large", large_seed))
    /\ large_current_chunk' = <<>>
    /\ large_current_tokens' = 0
    /\ large_seed' = <<>>
    /\ tokens' = Encode(sentence)
    /\ token_chunks' = <<>>
    /\ token_how' = <<>>
    /\ start' = 0
    /\ chunk_id' = 0
    /\ pc' = "windows"
    /\ UNCHANGED <<caller_vars, text, config_vars, section_vars, sentences, sj>>

\* a sentence of exactly max_tokens tokens is split by tokens as well
SentenceOversize_AtBudget ==
    /\ pc = "sentences" /\ sj <= Len(sentences)
    /\ sentence_tokens >= max_tokens
    /\ IF large_current_chunk # <<>>
       THEN /\ large_chunks' = Append(large_chunks,
                    Chunk(Strip(large_current_chunk), large_current_tokens,
                          Len(large_chunks)))
            /\ large_how' = Append(large_how, How("sentence_before_large", large_seed))
            /\ large_current_chunk' = <<>>
            /\ large_current_tokens' = 0
            /\ large_seed' = <<>>
       ELSE UNCHANGED <<large_chunks, large_how, large_current_chunk,
                        large_current_tokens, large_seed>>
    /\ tokens' = Encode(sentence)
    /\ token_chunks' = <<>>
    /\ token_how' = <<>>
    /\ start' = 0
    /\ chunk_id' = 0
    /\ pc' = "windows"
    /\ UNCHANGED <<caller_vars, text, config_vars, section_vars, sentences, sj>>

\* a single sentence is too large: save the current chunk if it exists and
\* enter _split_by_tokens(sentence)
SentenceOversize ==
    /\ pc = "sentences" /\ sj <= Len(sentences)
    /\ sentence_tokens > max_tokens
    /\ IF large_current_chunk # <<>>
       THEN /\ large_chunks' = Append(large_chunks,
                    Chunk(Strip(large_current_chunk), large_current_tokens,
                          Len(large_chunks)))
            /\ large_how' = Append(large_how, How("sentence_before_large", large_seed))
            /\ large_current_chunk' = <<>>
            /\ large_current_tokens' = 0
            /\ large_seed' = <<>>
       ELSE UNCHANGED <<large_chunks, large_how, large_current_chunk,
                        large_current_tokens, large_seed>>
    /\ tokens' = Encode(sentence)
    /\ token_chunks' = <<>>
    /\ token_how' = <<>>
    /\ start' = 0
    /\ chunk_id' = 0
    /\ pc' = "windows"
    /\ UNCHANGED <<caller_vars, text, config_vars, section_vars, sentences, sj>>

\* adding the sentence exceeds max: save the current chunk (unconditionally),
\* start a new one with the overlap text
SentenceFlush ==
    /\ pc = "sentences" /\ sj <= Len(sentences)
    /\ ~(sentence_tokens > max_tokens)
    /\ large_current_tokens + sentence_tokens > max_tokens
    /\ large_chunks' = Append(large_chunks,
            Chunk(Strip(large_current_chunk), large_current_tokens,
                  Len(large_chunks)))
    /\ large_how' = Append(large_how, How("sentence_budget", large_seed))
    /\ LET overlap_text == GetOverlapText(large_current_chunk, overlap)
           new_chunk == overlap_text \o <<SP>> \o sentence
       IN  /\ large_current_chunk' = new_chunk
           /\ large_current_tokens' = Len(Encode(new_chunk))
           /\ large_seed' = overlap_text
    /\ sj' = sj + 1
    /\ UNCHANGED <<caller_vars, pc, text, config_vars, section_vars, sentences, token_vars>>

\* add the sentence to the current chunk
SentenceAppend ==
    /\ pc = "sentences" /\ sj <= Len(sentences)
    /\ ~(sentence_tokens > max_tokens)
    /\ ~(large_current_tokens + sentence_tokens > max_tokens)
    /\ large_current_chunk' = IF large_current_chunk # <<>>
                              THEN large_current_chunk \o <<SP>> \o sentence
                              ELSE sentence
    /\ large_current_tokens' = large_current_tokens + sentence_tokens
    /\ sj' = sj + 1
    /\ UNCHANGED <<caller_vars, pc, text, config_vars, section_vars, sentences, large_chunks,
                   large_how, large_seed, token_vars>>

\* after the loop: add the final chunk, return; the caller (chunk_text)
\* extends its chunks with the returned list and takes the next section
SentenceReturn ==
    /\ pc = "sentences" /\ sj > Len(sentences)
    /\ LET final == Strip(large_current_chunk) # <<>>
           returned == IF final
                       THEN Append(large_chunks,
                                Chunk(Strip(large_current_chunk),
                                      large_current_tokens, Len(large_chunks)))
                       ELSE large_chunks
           returned_how == IF final
                           THEN Append(large_how, How("sentence_final", large_seed))
                           ELSE large_how
       IN  /\ large_chunks' = returned
           /\ large_how' = returned_how
           /\ chunks' = chunks \o returned
           /\ how' = how \o returned_how
    /\ si' = si + 1
    /\ pc' = "sections"
    /\ UNCHANGED <<caller_vars, text, config_vars, sections, current_chunk, current_tokens,
                   seed, sentences, sj, large_current_chunk,
                   large_current_tokens, large_seed, token_vars>>

----------------------------------------------------------------------------
(* _split_by_tokens: the window loop *)

\* end = start + self.max_tokens
WindowEnd(s) == s + max_tokens

\* start = end - self.max_tokens: the window start never moves
NextStart_Stays(end) == end - max_tokens

\* start = end - self.overlap
NextStart(end) == end - overlap

\* one iteration of the while loop.  The number of windows is capped for the
\* configurations under which the loop never ends.
WindowStep ==
    /\ pc = "windows"
    /\ start < Len(tokens)
    /\ Len(token_chunks) <= Len(tokens)
    /\ LET end == WindowEnd(start)
           chunk_tokens == PySlice(tokens, start, end)
       IN  /\ token_chunks' = Append(token_chunks,
                    Chunk(Decode(chunk_tokens), Len(chunk_tokens), chunk_id))
           /\ token_how' = Append(token_how,
                    How("window", IF chunk_id = 0 THEN <<>>
                                  ELSE Decode(PySlice(chunk_tokens, 0, overlap))))
           /\ start' = NextStart(end)
    /\ chunk_id' = chunk_id + 1
    /\ UNCHANGED <<caller_vars, pc, text, config_vars, section_vars, sentence_vars, tokens>>

\* the return of the windows with the caller's list assigned, not extended
WindowReturn_Replaces ==
    /\ pc = "windows"
    /\ ~(start < Len(tokens))
    /\ large_chunks' = token_chunks
    /\ large_how' = token_how
    /\ sj' = sj + 1
    /\ pc' = "sentences"
    /\ UNCHANGED <<caller_vars, text, config_vars, section_vars, sentences,
                   large_current_chunk, large_current_tokens, large_seed,
                   token_vars>>

\* the loop ends; _split_large_section extends its chunks with the returned
\* windows and takes the next sentence
WindowReturn ==
    /\ pc = "windows"
    /\ ~(start < Len(tokens))
    /\ large_chunks' = large_chunks \o token_chunks
    /\ large_how' = large_how \o token_how
    /\ sj' = sj + 1
    /\ pc' = "sentences"
    /\ UNCHANGED <<caller_vars, text, config_vars, section_vars, sentences,
                   large_current_chunk, large_current_tokens, large_seed,
                   token_vars>>

----------------------------------------------------------------------------
(* A failure of the token codec inside chunk_text *)

\* the next step of the call calls encoding.encode or encoding.decode
CodecCallAhead ==
    \/ pc = "sections" /\ si <= Len(sections)
    \/ pc = "sentences" /\ sj <= Len(sentences)
    \/ pc = "windows" /\ start < Len(tokens)

\* a handler around the loop that keeps the chunks made so far
CodecFailure_ReturnsPartial ==
    /\ CodecCallAhead
    /\ codec_error' = "CodecError"
    /\ exc' = "none"
    /\ pc' = "done"
    /\ UNCHANGED <<text, config_vars, section_vars, sentence_vars, token_vars,
                   stats_log, batch_vars, call, thread_vars,
                   twin>>

\* the codec raises: chunk_text, _split_large_section, _split_by_tokens and
\* _get_overlap_text have no handler, so the call ends with the codec's
\* exception and its caller gets no list
CodecFailure ==
    /\ CodecCallAhead
    /\ codec_error' = "CodecError"
    /\ exc' = "CodecError"
    /\ pc' = "raised"
    /\ UNCHANGED <<text, config_vars, section_vars, sentence_vars, token_vars,
                   stats_log, batch_vars, call, thread_vars,
                   twin>>

----------------------------------------------------------------------------
(* get_statistics *)

\* sum(token_counts)
RECURSIVE Sum(_)
Sum(q) ==
    IF Len(q) = 0 THEN 0
    ELSE IF Len(q) = 1 THEN q[1]
    ELSE LET h == Len(q) \div 2
         IN  Sum(SubSeq(q, 1, h)) + Sum(SubSeq(q, h + 1, Len(q)))

\* the numbers of a statistics record are kept in hundredths where the source
\* has a float of two decimals
Hundredths == 100

\* round(n / d, 2), in hundredths: the nearest hundredth, a tie going to the
\* even one (Python rounds the double n / d; a tie that the double does not
\* hold exactly needs a chunk count that is a multiple of 40)
Round2(n, d) ==
    LET q == (Hundredths * n) \div d
        r == (Hundredths * n) % d
    IN  IF 2 * r < d THEN q
        ELSE IF 2 * r > d THEN q + 1
        ELSE IF q % 2 = 0 THEN q ELSE q + 1

\* get_statistics without the case of no chunks spelled out field by field
Statistics_EmptyCountOnly(cs) ==
    IF cs = <<>> THEN [total_chunks |-> 0]
    ELSE LET token_counts == [i \in DOMAIN cs |-> cs[i].tokens]
             counts == {token_counts[i] : i \in DOMAIN cs}
         IN  [total_chunks |-> Len(cs),
              total_tokens |-> Sum(token_counts),
              avg_tokens |-> Round2(Sum(token_counts), Len(token_counts)),
              min_tokens |-> Min(counts),
              max_tokens |-> Max(counts)]

\* get_statistics with the average cut instead of rounded
Statistics_AvgCut(cs) ==
    IF cs = <<>>
    THEN [total_chunks |-> 0, total_tokens |-> 0, avg_tokens |-> 0,
          min_tokens |-> 0, max_tokens |-> 0]
    ELSE LET token_counts == [i \in DOMAIN cs |-> cs[i].tokens]
             counts == {token_counts[i] : i \in DOMAIN cs}
         IN  [total_chunks |-> Len(cs),
              total_tokens |-> Sum(token_counts),
              avg_tokens |->
                  (Hundredths * Sum(token_counts)) \div Len(token_counts),
              min_tokens |-> Min(counts),
              max_tokens |-> Max(counts)]

\* get_statistics(chunks): the record it returns
Statistics(cs) ==
    IF cs = <<>>
    THEN [total_chunks |-> 0, total_tokens |-> 0, avg_tokens |-> 0,
          min_tokens |-> 0, max_tokens |-> 0]
    ELSE LET token_counts == [i \in DOMAIN cs |-> cs[i].tokens]
             counts == {token_counts[i] : i \in DOMAIN cs}
         IN  [total_chunks |-> Len(cs),
              total_tokens |-> Sum(token_counts),
              avg_tokens |-> Round2(Sum(token_counts), Len(token_counts)),
              min_tokens |-> Min(counts),
              max_tokens |-> Max(counts)]

\* a get_statistics that takes the chunks out of the list it is given
GetStatistics_Drains ==
    /\ pc \in {"done", "batch_done"}
    /\ Len(stats_log) < MaxStatCalls
    /\ stats_log' = Append(stats_log, Statistics(chunks))
    /\ chunks' = <<>>
    /\ UNCHANGED <<pc, text, config_vars, sections, si, current_chunk,
                   current_tokens, how, seed, sentence_vars, token_vars,
                   batch_vars, call, thread_vars, error_vars,
                   twin>>

\* the caller passes the chunks chunk_text returned to get_statistics, before
\* or after it passes them to generate_faqs_batch
GetStatistics ==
    /\ pc \in {"done", "batch_done"}
    /\ Len(stats_log) < MaxStatCalls
    /\ stats_log' = Append(stats_log, Statistics(chunks))
    /\ UNCHANGED <<pc, text, config_vars, section_vars, sentence_vars,
                   token_vars, batch_vars, call, thread_vars, error_vars,
                   twin>>

----------------------------------------------------------------------------
(* FAQGenerator.generate_faqs_batch over the chunks chunk_text returned *)

DigitChars == <<"0", "1", "2", "3", "4", "5", "6", "7", "8", "9">>

\* str(n) of a non-negative integer
RECURSIVE Digits(_)
Digits(n) ==
    IF n < 10 THEN <<DigitChars[n + 1]>>
    ELSE Digits(n \div 10) \o <<DigitChars[(n % 10) + 1]>>

\* f"{chunk_id}_{i}"
FaqId(c, i) == Digits(c) \o <<"_">> \o Digits(i)

\* a parsed FAQ after generate_faqs_from_chunk has tagged it (its question
\* and answer are the language model's and are left out)
Faq(c, i) == [chunk_id |-> c, faq_id |-> FaqId(c, i)]

\* what one call of the language model and the parsing of its response come
\* to: an exception, or a list of n FAQs
Outcomes ==
    {[failed |-> TRUE, n |-> 0]} \cup {[failed |-> FALSE, n |-> k] : k \in 0..MaxFaqs}

\* generate_faqs_from_chunk(chunk_text, chunk_id): the tagged FAQs, or the
\* empty list when the call or the parsing raised
GenerateFaqsFromChunk(c, outcome) ==
    IF outcome.failed THEN <<>>
    ELSE [i \in 1..outcome.n |-> Faq(c, i - 1)]

\* history record of one generate_faqs_from_chunk call
GenCall(i, chunk, outcome) ==
    [index |-> i, text |-> chunk.text, chunk_id |-> chunk.chunk_id,
     outcome |-> outcome]

\* generate_faqs_batch(chunks), up to the start of its loop.  The caller has
\* taken the statistics first.  Batches of more than MaxBatchChunks chunks
\* are left out of the model.
GenerateFaqsBatch ==
    /\ pc = "done"
    /\ Len(stats_log) = 1
    /\ Len(chunks) <= MaxBatchChunks
    /\ all_faqs' = <<>>
    /\ bi' = 1
    /\ gen_calls' = <<>>
    /\ pc' = "batch"
    /\ UNCHANGED <<text, config_vars, section_vars, sentence_vars, token_vars,
                   stats_log, call, thread_vars, error_vars,
                   twin>>

\* one iteration: generate_faqs_from_chunk returns n tagged FAQs
BatchGenerated(n) ==
    /\ pc = "batch" /\ bi <= Len(chunks)
    /\ LET chunk == chunks[bi]
           outcome == [failed |-> FALSE, n |-> n]
           faqs == GenerateFaqsFromChunk(chunk.chunk_id, outcome)
       IN  /\ all_faqs' = all_faqs \o faqs
           /\ gen_calls' = Append(gen_calls, GenCall(bi - 1, chunk, outcome))
    /\ bi' = bi + 1
    /\ UNCHANGED <<pc, text, config_vars, section_vars, sentence_vars,
                   token_vars, stats_log, call, thread_vars, error_vars,
                   twin>>

\* one iteration whose generation raises, with the exception leaving the
\* batch
BatchFailed_Propagates ==
    /\ pc = "batch" /\ bi <= Len(chunks)
    /\ gen_calls' = Append(gen_calls,
            GenCall(bi - 1, chunks[bi], [failed |-> TRUE, n |-> 0]))
    /\ pc' = "batch_done"
    /\ UNCHANGED <<text, config_vars, section_vars, sentence_vars, token_vars,
                   stats_log, bi, all_faqs, call, thread_vars, error_vars,
                   twin>>

\* one iteration whose generation raises: generate_faqs_from_chunk catches
\* the exception and returns the empty list
BatchFailed ==
    /\ pc = "batch" /\ bi <= Len(chunks)
    /\ LET chunk == chunks[bi]
           outcome == [failed |-> TRUE, n |-> 0]
           faqs == GenerateFaqsFromChunk(chunk.chunk_id, outcome)
       IN  /\ all_faqs' = all_faqs \o faqs
           /\ gen_calls' = Append(gen_calls, GenCall(bi - 1, chunk, outcome))
    /\ bi' = bi + 1
    /\ UNCHANGED <<pc, text, config_vars, section_vars, sentence_vars,
                   token_vars, stats_log, call, thread_vars, error_vars,
                   twin>>

\* the loop is over: return all_faqs
BatchReturn ==
    /\ pc = "batch" /\ bi > Len(chunks)
    /\ pc' = "batch_done"
    /\ UNCHANGED <<text, config_vars, section_vars, sentence_vars, token_vars,
                   caller_vars>>

----------------------------------------------------------------------------
(* The specification *)

Next ==
    \/ pc = "new" /\ \E c \in Configs : Construct(c[1], c[2])
    \/ pc = "ready" /\ \E t \in Texts : ChunkText(t)
    \/ SectionOversize
    \/ SectionFlush
    \/ SectionAppend
    \/ Finish
    \/ SentenceOversize
    \/ SentenceFlush
    \/ SentenceAppend
    \/ SentenceReturn
    \/ WindowStep
    \/ WindowReturn
    \/ GetStatistics

Spec == Init /\ [][Next]_vars

----------------------------------------------------------------------------
(* The helpers called directly on a constructed TextChunker *)

\* the texts of the direct calls: single line breaks as well
DirectAtoms == Atoms \cup {<<NL>>}

DirectTexts ==
    {Flatten(f) : f \in UNION {[1..n -> DirectAtoms] : n \in 0..MaxDirectAtoms}}

\* the overlap_tokens arguments of the direct calls
OverlapArgs == (0 - 1)..(MaxOverlap + 1)

DirectCall(fn, t, k, result) == [fn |-> fn, text |-> t, k |-> k, result |-> result]

\* chunker._get_overlap_text(t, k)
CallGetOverlapText(t, k) ==
    /\ pc = "ready"
    /\ call' = DirectCall("_get_overlap_text", t, k, GetOverlapText(t, k))
    /\ UNCHANGED <<pc, text, config_vars, section_vars, sentence_vars,
                   token_vars, stats_log, batch_vars, thread_vars, error_vars,
                   twin>>

\* chunker._split_by_sections(t)
CallSplitBySections(t) ==
    /\ pc = "ready"
    /\ call' = DirectCall("_split_by_sections", t, 0, SplitBySections(t))
    /\ UNCHANGED <<pc, text, config_vars, section_vars, sentence_vars,
                   token_vars, stats_log, batch_vars, thread_vars, error_vars,
                   twin>>

\* chunker._split_by_sentences(t)
CallSplitBySentences(t) ==
    /\ pc = "ready"
    /\ call' = DirectCall("_split_by_sentences", t, 0, SplitBySentences(t))
    /\ UNCHANGED <<pc, text, config_vars, section_vars, sentence_vars,
                   token_vars, stats_log, batch_vars, thread_vars, error_vars,
                   twin>>

\* a run constructs a TextChunker and makes one direct call
NoCallYet == pc = "ready" /\ call.fn = "none"

DirectNext ==
    \/ pc = "new" /\ \E c \in Configs : Construct(c[1], c[2])
    \/ NoCallYet /\ \E t \in DirectTexts : \E k \in OverlapArgs :
                        CallGetOverlapText(t, k)
    \/ NoCallYet /\ \E t \in DirectTexts : CallSplitBySections(t)
    \/ NoCallYet /\ \E t \in DirectTexts : CallSplitBySentences(t)

DirectSpec == Init /\ [][DirectNext]_vars

\* the texts of the pipeline runs: one letter is enough where the claims
\* are about the calls made and not about the content of the chunks
PipelineAtoms == Atoms \ {<<"b">>}

PipelineTexts ==
    {Flatten(f) : f \in UNION {[1..n -> PipelineAtoms] : n \in 0..MaxPipelineAtoms}}

\* the pipeline of main.py: construct, chunk_text, get_statistics,
\* generate_faqs_batch
PipelineNext ==
    \/ pc = "new" /\ \E c \in Configs : Construct(c[1], c[2])
    \/ pc = "ready" /\ \E t \in PipelineTexts : ChunkText(t)
    \/ SectionOversize
    \/ SectionFlush
    \/ SectionAppend
    \/ Finish
    \/ SentenceOversize
    \/ SentenceFlush
    \/ SentenceAppend
    \/ SentenceReturn
    \/ WindowStep
    \/ WindowReturn
    \/ GetStatistics
    \/ GenerateFaqsBatch
    \/ \E n \in 0..MaxFaqs : BatchGenerated(n)
    \/ BatchFailed
    \/ BatchReturn
    \/ CodecFailure

PipelineSpec == Init /\ [][PipelineNext]_vars

----------------------------------------------------------------------------
(* Two threads calling chunk_text on the same TextChunker *)

\* a call that has started and has not returned
MidCall(p) == p \in {"sections", "sentences", "windows"}

\* the frame of the running thread
Running_Frame == Frame(pc, text, section_vars, sentence_vars, token_vars)

\* a thread switch that leaves the accumulator where it is, as if
\* current_chunk and current_tokens were attributes of the TextChunker
Switch_SharedAccumulator ==
    /\ pc # "new" /\ parked.pc # "done"
    /\ parked' = Running_Frame
    /\ active' = 3 - active
    /\ interleaved' = (interleaved \/ (MidCall(pc) /\ MidCall(parked.pc)))
    /\ pc' = parked.pc /\ text' = parked.text
    /\ sections' = parked.sections /\ si' = parked.si
    /\ chunks' = parked.chunks
    /\ how' = parked.how /\ seed' = parked.seed
    /\ sentences' = parked.sentences /\ sj' = parked.sj
    /\ large_chunks' = parked.large_chunks
    /\ large_current_chunk' = parked.large_current_chunk
    /\ large_current_tokens' = parked.large_current_tokens
    /\ large_how' = parked.large_how /\ large_seed' = parked.large_seed
    /\ tokens' = parked.tokens /\ start' = parked.start
    /\ token_chunks' = parked.token_chunks
    /\ chunk_id' = parked.chunk_id /\ token_how' = parked.token_how
    /\ UNCHANGED <<config_vars, current_chunk, current_tokens, stats_log,
                   batch_vars, call, error_vars,
                   twin>>

\* the interpreter switches to the other thread, which has not returned yet:
\* the running call's frame is set aside and the other thread goes on with
\* its own; self.max_tokens and self.overlap are the only state the two share
Switch ==
    /\ pc # "new" /\ parked.pc # "done"
    /\ parked' = Running_Frame
    /\ active' = 3 - active
    /\ interleaved' = (interleaved \/ (MidCall(pc) /\ MidCall(parked.pc)))
    /\ pc' = parked.pc /\ text' = parked.text
    /\ sections' = parked.sections /\ si' = parked.si
    /\ chunks' = parked.chunks
    /\ current_chunk' = parked.current_chunk
    /\ current_tokens' = parked.current_tokens
    /\ how' = parked.how /\ seed' = parked.seed
    /\ sentences' = parked.sentences /\ sj' = parked.sj
    /\ large_chunks' = parked.large_chunks
    /\ large_current_chunk' = parked.large_current_chunk
    /\ large_current_tokens' = parked.large_current_tokens
    /\ large_how' = parked.large_how /\ large_seed' = parked.large_seed
    /\ tokens' = parked.tokens /\ start' = parked.start
    /\ token_chunks' = parked.token_chunks
    /\ chunk_id' = parked.chunk_id /\ token_how' = parked.token_how
    /\ UNCHANGED <<config_vars, stats_log, batch_vars, call, error_vars,
                   twin>>

\* the texts of the first thread's call
ConcurrentTexts ==
    {Flatten(f) : f \in UNION {[1..n -> PipelineAtoms] : n \in 0..MaxConcurrentAtoms}}

\* the texts of the second thread's call: one that stays in the section loop,
\* one that goes through the sentence loop, one that goes through the windows
SecondTexts ==
    {<<"a", NL, NL, "a">>, <<".", SP, ".">>, <<"a", "a">>}

ConcurrentNext ==
    \/ pc = "new" /\ \E c \in Configs : Construct(c[1], c[2])
    \/ pc = "ready" /\ active = 1 /\ \E t \in ConcurrentTexts : ChunkText(t)
    \/ pc = "ready" /\ active = 2 /\ \E t \in SecondTexts : ChunkText(t)
    \/ SectionOversize
    \/ SectionFlush
    \/ SectionAppend
    \/ Finish
    \/ SentenceOversize
    \/ SentenceFlush
    \/ SentenceAppend
    \/ SentenceReturn
    \/ WindowStep
    \/ WindowReturn
    \/ Switch

ConcurrentSpec == Init /\ [][ConcurrentNext]_vars

----------------------------------------------------------------------------
(* chunk_text as a function of its text and of the configuration: what a
   call returns when it runs alone *)

\* _split_by_tokens, from the window that starts at `from`
RECURSIVE WindowsAlone(_, _, _, _, _)
WindowsAlone(toks, m, o, from, id) ==
    IF from < Len(toks)
    THEN LET end == from + m
             chunk_tokens == PySlice(toks, from, end)
         IN  <<Chunk(Decode(chunk_tokens), Len(chunk_tokens), id)>>
                 \o WindowsAlone(toks, m, o, end - o, id + 1)
    ELSE <<>>

\* _split_large_section, from sentence j on
RECURSIVE SentencesAlone(_, _, _, _, _, _, _)
SentencesAlone(ss, j, m, o, out, cur, cur_tokens) ==
    LET saved == Append(out, Chunk(Strip(cur), cur_tokens, Len(out)))
    IN  IF j > Len(ss)
        THEN IF Strip(cur) # <<>> THEN saved ELSE out
        ELSE LET n == Len(Encode(ss[j]))
             IN  IF n > m
                 THEN SentencesAlone(ss, j + 1, m, o,
                          (IF cur # <<>> THEN saved ELSE out)
                              \o WindowsAlone(Encode(ss[j]), m, o, 0, 0),
                          IF cur # <<>> THEN <<>> ELSE cur,
                          IF cur # <<>> THEN 0 ELSE cur_tokens)
                 ELSE IF cur_tokens + n > m
                 THEN LET new_chunk == GetOverlapText(cur, o) \o <<SP>> \o ss[j]
                      IN  SentencesAlone(ss, j + 1, m, o, saved, new_chunk,
                                         Len(Encode(new_chunk)))
                 ELSE SentencesAlone(ss, j + 1, m, o, out,
                          IF cur # <<>> THEN cur \o <<SP>> \o ss[j] ELSE ss[j],
                          cur_tokens + n)

\* chunk_text, from section i on
RECURSIVE SectionsAlone(_, _, _, _, _, _, _)
SectionsAlone(ss, i, m, o, out, cur, cur_tokens) ==
    LET saved == Append(out, Chunk(Strip(cur), cur_tokens, Len(out)))
    IN  IF i > Len(ss)
        THEN IF Strip(cur) # <<>> THEN saved ELSE out
        ELSE LET n == Len(Encode(ss[i]))
             IN  IF n > m
                 THEN SectionsAlone(ss, i + 1, m, o,
                          (IF cur # <<>> THEN saved ELSE out)
                              \o SentencesAlone(SplitBySentences(ss[i]), 1, m, o,
                                                <<>>, <<>>, 0),
                          IF cur # <<>> THEN <<>> ELSE cur,
                          IF cur # <<>> THEN 0 ELSE cur_tokens)
                 ELSE IF cur_tokens + n > m
                 THEN LET new_chunk == GetOverlapText(cur, o) \o <<NL, NL>> \o ss[i]
                      IN  SectionsAlone(ss, i + 1, m, o,
                                        IF cur # <<>> THEN saved ELSE out,
                                        new_chunk, Len(Encode(new_chunk)))
                 ELSE SectionsAlone(ss, i + 1, m, o, out,
                          IF cur # <<>> THEN cur \o <<NL, NL>> \o ss[i] ELSE ss[i],
                          cur_tokens + n)

ChunkTextAlone(t, m, o) == SectionsAlone(SplitBySections(t), 1, m, o, <<>>, <<>>, 0)

----------------------------------------------------------------------------
(* The loop of chunk_text and the loop of _split_large_section, run side by
   side over one sequence of units *)

MaxUnits == 3

TwinUnitAtoms == {<<"a">>, <<".">>}

\* the texts that chunk_text takes as one section and _split_large_section
\* as one sentence
TwinUnits ==
    {u \in TwinUnitAtoms
            \cup {x \o y : x \in TwinUnitAtoms, y \in TwinUnitAtoms}
            \cup {x \o <<SP>> \o y : x \in TwinUnitAtoms, y \in TwinUnitAtoms} :
        SplitBySections(u) = <<u>> /\ SplitBySentences(u) = <<u>>}

UnitLists == UNION {[1..n -> TwinUnits] : n \in 0..MaxUnits}

\* the window loop of _split_by_tokens ends: each window starts
\* max_tokens - overlap tokens after the one before
WindowsEnd(m, o) == m - o >= 1

\* one iteration of the loop of chunk_text over the sections
SectionLoopStep(a, unit, m, o) ==
    LET n == Len(Encode(unit))
        saved == Append(a.chunks, Chunk(Strip(a.current_chunk), a.current_tokens,
                                        Len(a.chunks)))
    IN  IF n > m
        THEN Loop((IF a.current_chunk # <<>> THEN saved ELSE a.chunks)
                      \o SentencesAlone(SplitBySentences(unit), 1, m, o,
                                        <<>>, <<>>, 0),
                  IF a.current_chunk # <<>> THEN <<>> ELSE a.current_chunk,
                  IF a.current_chunk # <<>> THEN 0 ELSE a.current_tokens,
                  Append(a.decisions, "oversized"))
        ELSE IF a.current_tokens + n > m
        THEN LET new_chunk == GetOverlapText(a.current_chunk, o)
                                  \o <<NL, NL>> \o unit
             IN  Loop(IF a.current_chunk # <<>> THEN saved ELSE a.chunks,
                      new_chunk, Len(Encode(new_chunk)),
                      Append(a.decisions, "flush"))
        ELSE Loop(a.chunks,
                  IF a.current_chunk # <<>>
                  THEN a.current_chunk \o <<NL, NL>> \o unit ELSE unit,
                  a.current_tokens + n,
                  Append(a.decisions, "append"))

\* the sentence loop that saves the current chunk when the budget is met,
\* not only when it is exceeded
SentenceLoopStep_FlushAtBudget(a, unit, m, o) ==
    LET n == Len(Encode(unit))
        saved == Append(a.chunks, Chunk(Strip(a.current_chunk), a.current_tokens,
                                        Len(a.chunks)))
    IN  IF n > m
        THEN Loop((IF a.current_chunk # <<>> THEN saved ELSE a.chunks)
                      \o WindowsAlone(Encode(unit), m, o, 0, 0),
                  IF a.current_chunk # <<>> THEN <<>> ELSE a.current_chunk,
                  IF a.current_chunk # <<>> THEN 0 ELSE a.current_tokens,
                  Append(a.decisions, "oversized"))
        ELSE IF a.current_tokens + n >= m
        THEN LET new_chunk == GetOverlapText(a.current_chunk, o)
                                  \o <<SP>> \o unit
             IN  Loop(saved, new_chunk, Len(Encode(new_chunk)),
                      Append(a.decisions, "flush"))
        ELSE Loop(a.chunks,
                  IF a.current_chunk # <<>>
                  THEN a.current_chunk \o <<SP>> \o unit ELSE unit,
                  a.current_tokens + n,
                  Append(a.decisions, "append"))

\* one iteration of the loop of _split_large_section over the sentences
SentenceLoopStep(a, unit, m, o) ==
    LET n == Len(Encode(unit))
        saved == Append(a.chunks, Chunk(Strip(a.current_chunk), a.current_tokens,
                                        Len(a.chunks)))
    IN  IF n > m
        THEN Loop((IF a.current_chunk # <<>> THEN saved ELSE a.chunks)
                      \o WindowsAlone(Encode(unit), m, o, 0, 0),
                  IF a.current_chunk # <<>> THEN <<>> ELSE a.current_chunk,
                  IF a.current_chunk # <<>> THEN 0 ELSE a.current_tokens,
                  Append(a.decisions, "oversized"))
        ELSE IF a.current_tokens + n > m
        THEN LET new_chunk == GetOverlapText(a.current_chunk, o)
                                  \o <<SP>> \o unit
             IN  Loop(saved, new_chunk, Len(Encode(new_chunk)),
                      Append(a.decisions, "flush"))
        ELSE Loop(a.chunks,
                  IF a.current_chunk # <<>>
                  THEN a.current_chunk \o <<SP>> \o unit ELSE unit,
                  a.current_tokens + n,
                  Append(a.decisions, "append"))

\* after either loop: add the final chunk
LoopEnd(a) ==
    IF Strip(a.current_chunk) # <<>>
    THEN Loop(Append(a.chunks, Chunk(Strip(a.current_chunk), a.current_tokens,
                                     Len(a.chunks))),
              a.current_chunk, a.current_tokens, Append(a.decisions, "final"))
    ELSE Loop(a.chunks, a.current_chunk, a.current_tokens,
              Append(a.decisions, "return"))

\* both loops start over the units us
TwinStart(us) ==
    /\ pc = "ready" /\ twin.k = 0
    /\ twin' = [twin EXCEPT !.units = us, !.k = 1]
    /\ UNCHANGED <<pc, text, config_vars, section_vars, sentence_vars, token_vars,
                   stats_log, batch_vars, call, thread_vars, error_vars>>

\* both loops take the next unit; an oversized unit is taken only where
\* the window loop under it ends
TwinStep ==
    /\ pc = "ready" /\ twin.k \in 1..Len(twin.units)
    /\ LET unit == twin.units[twin.k]
       IN  /\ Len(Encode(unit)) > max_tokens => WindowsEnd(max_tokens, overlap)
           /\ twin' = [twin EXCEPT
                  !.k = twin.k + 1,
                  !.section_loop =
                      SectionLoopStep(twin.section_loop, unit, max_tokens, overlap),
                  !.sentence_loop =
                      SentenceLoopStep(twin.sentence_loop, unit, max_tokens, overlap)]
    /\ UNCHANGED <<pc, text, config_vars, section_vars, sentence_vars, token_vars,
                   stats_log, batch_vars, call, thread_vars, error_vars>>

\* both loops are over and add their final chunks
TwinEnd ==
    /\ pc = "ready" /\ twin.k = Len(twin.units) + 1
    /\ twin' = [twin EXCEPT !.k = twin.k + 1,
                            !.section_loop = LoopEnd(twin.section_loop),
                            !.sentence_loop = LoopEnd(twin.sentence_loop)]
    /\ UNCHANGED <<pc, text, config_vars, section_vars, sentence_vars, token_vars,
                   stats_log, batch_vars, call, thread_vars, error_vars>>

TwinNext ==
    \/ pc = "new" /\ \E c \in Configs : Construct(c[1], c[2])
    \/ (pc = "ready" /\ twin.k = 0) /\ \E us \in UnitLists : TwinStart(us)
    \/ TwinStep
    \/ TwinEnd

TwinSpec == Init /\ [][TwinNext]_vars

----------------------------------------------------------------------------
(* Properties *)

ValidConfig == max_tokens >= 1 /\ 0 <= overlap /\ overlap < max_tokens

Returned == pc = "done"

FirstK(q, k) == SubSeq(q, 1, k)
LastK(q, k) == SubSeq(q, Len(q) - k + 1, Len(q))

\* C1: under a valid configuration every chunk returned by chunk_text has at
\* most max_tokens tokens, both as recorded in 'tokens' and as counted by the
\* codec on its text.
C1_BudgetInvariant ==
    (Returned /\ ValidConfig) =>
        \A i \in DOMAIN chunks :
            /\ chunks[i].tokens <= max_tokens
            /\ Count(chunks[i].text) <= max_tokens

\* C2: for every chunk returned by chunk_text the recorded 'tokens' equals
\* the codec's token count of the chunk's text.
C2_TokensMatchText ==
    Returned => \A i \in DOMAIN chunks : chunks[i].tokens = Count(chunks[i].text)

\* C3: the chunk_id values of the n returned chunks are 0, 1, ..., n-1 in
\* emission order.
C3_IndexDense ==
    Returned => \A i \in DOMAIN chunks : chunks[i].chunk_id = i - 1

\* C4: no chunk_text call runs on a TextChunker with max_tokens <= 0 or
\* overlap >= max_tokens, because construction rejects such a configuration.
C4_ConfigRejected ==
    (pc \notin {"new", "ready"}) => (max_tokens > 0 /\ overlap < max_tokens)

Running == pc \in {"sections", "sentences", "windows"}

\* the work chunk_text has left, ordered lexicographically: sections to take,
\* sentences to take inside the section being split, tokens to window inside
\* the sentence being split
Variant ==
    << Len(sections) + 1 - si,
       IF pc = "sections" THEN 1 ELSE 0,
       IF pc \in {"sentences", "windows"} THEN Len(sentences) + 1 - sj ELSE 0,
       IF pc = "sentences" THEN 1 ELSE 0,
       IF pc = "windows" /\ start < Len(tokens) THEN Len(tokens) - start ELSE 0 >>

LexLess(a, b) ==
    \E k \in DOMAIN a : a[k] < b[k] /\ \A j \in 1..(k - 1) : a[j] = b[j]

\* the window loop is not held back by the cap on the number of windows
NotCapped ==
    (pc = "windows" /\ start < Len(tokens)) => Len(token_chunks) <= Len(tokens)

\* C5: under a valid configuration chunk_text terminates: every step of a
\* running call strictly decreases the work left, which is bounded below, and
\* leaves a state from which the call can go on or has returned.
C5_Terminates ==
    [][(ValidConfig /\ Running) =>
          /\ LexLess(Variant', Variant)
          /\ \A k \in DOMAIN Variant : Variant'[k] >= 0
          /\ NotCapped'
          /\ (Running' \/ Returned')]_vars

\* chunk_text has returned, under a valid configuration, on a text that is one
\* run of tokens longer than max_tokens with no whitespace and no punctuation
C5_LongRunReturned ==
    /\ Returned /\ ValidConfig
    /\ Len(text) > max_tokens + 1
    /\ \A i \in DOMAIN text : text[i] \notin (Whitespace \cup Terminators)
    /\ Len(chunks) >= 2

NonSpace(s) == SelectSeq(s, LAMBDA c : c \notin Whitespace)

LStrip(s) ==
    LET idx == {i \in 1..Len(s) : s[i] \notin Whitespace}
    IN  IF idx = {} THEN <<>> ELSE SubSeq(s, Min(idx), Len(s))

\* the length of the prefix of chunk i that repeats the end of chunk i-1
DupLen(i) ==
    IF how[i].via = "window" THEN Len(how[i].seed) ELSE Len(LStrip(how[i].seed))

\* chunk i without that prefix
Fresh(i) == SubSeq(chunks[i].text, DupLen(i) + 1, Len(chunks[i].text))

\* C6: in the returned sequence, the overlap prefix of every chunk repeats the
\* end of the text of the chunk before it, and the chunk texts without these
\* prefixes, concatenated in order, are the input text up to whitespace.
C6_Coverage ==
    Returned =>
        /\ \A i \in DOMAIN chunks :
              /\ DupLen(i) <= Len(chunks[i].text)
              /\ DupLen(i) > 0 =>
                    /\ i > 1
                    /\ DupLen(i) <= Len(chunks[i - 1].text)
                    /\ FirstK(chunks[i].text, DupLen(i))
                          = LastK(chunks[i - 1].text, DupLen(i))
        /\ NonSpace(Decode([i \in DOMAIN chunks |-> Fresh(i)])) = NonSpace(text)

\* a returned sequence of at least three chunks, one of them started from an
\* overlap seed that is followed by content of its own
C6_OverlapsRemoved ==
    /\ Returned /\ ValidConfig
    /\ Len(chunks) >= 3
    /\ \E i \in DOMAIN chunks :
          how[i].via # "window" /\ DupLen(i) > 0 /\ Fresh(i) # <<>>

\* C7: when chunk i was closed by a budget-triggered flush, the leading
\* min(overlap, tokens of chunk i) tokens of chunk i+1 are the trailing tokens
\* of chunk i.
C7_OverlapCorrect ==
    (Returned /\ ValidConfig) =>
        \A i \in 1..(Len(chunks) - 1) :
            how[i].via \in {"section_budget", "sentence_budget"} =>
                LET prev == Encode(chunks[i].text)
                    next == Encode(chunks[i + 1].text)
                    k == Min({overlap, Len(prev)})
                IN  /\ k <= Len(next)
                    /\ FirstK(next, k) = LastK(prev, k)

\* C8: with max_tokens=50 and overlap=10 on paragraphs of 20, 40 and 60
\* tokens, chunk 0 is paragraph 1 with 20 tokens, chunk 1 is the last 10
\* tokens of chunk 0 followed by paragraph 2 with at most 50 tokens, and every
\* later chunk has at most 50 tokens.
C8_Scenario ==
    (Returned /\ text = ScenarioText
        /\ max_tokens = ExampleMaxTokens /\ overlap = ExampleOverlap) =>
        /\ Len(chunks) >= 3
        /\ chunks[1].text = Sentence(20) /\ chunks[1].tokens = 20
        /\ chunks[2].text = Sentence(10) \o <<NL, NL>> \o Sentence(40)
        /\ chunks[2].tokens <= ExampleMaxTokens
        /\ Count(chunks[2].text) <= ExampleMaxTokens
        /\ \A i \in 3..Len(chunks) :
              /\ chunks[i].tokens <= ExampleMaxTokens
              /\ Count(chunks[i].text) <= ExampleMaxTokens

\* _split_by_tokens is about to return
WindowsDone == pc = "windows" /\ ~(start < Len(tokens))

\* C9: under a valid configuration the windows _split_by_tokens returns all
\* hold exactly max_tokens tokens except possibly the last one, and every
\* window after the first begins with the last `overlap` tokens of the window
\* before it.
C9_Windows ==
    (WindowsDone /\ ValidConfig /\ Len(tokens) > max_tokens) =>
        /\ \A i \in 1..(Len(token_chunks) - 1) :
              token_chunks[i].tokens = max_tokens
        /\ \A i \in 2..Len(token_chunks) :
              LET prev == Encode(token_chunks[i - 1].text)
                  this == Encode(token_chunks[i].text)
              IN  /\ overlap <= Len(this) /\ overlap <= Len(prev)
                  /\ FirstK(this, overlap) = LastK(prev, overlap)

\* C10: on every constructed TextChunker each iteration of the window loop
\* moves start forward by max_tokens - overlap, which is at least 1.
C10_WindowProgress ==
    [][WindowStep => (start' = start + (max_tokens - overlap) /\ start' >= start + 1)]_vars

Blank(s) == \A i \in DOMAIN s : s[i] \in Whitespace

\* C11: chunk_text on the empty text, and on a text of nothing but whitespace
\* and line breaks, returns an empty chunk sequence.
C11_BlankGivesNoChunks ==
    (Returned /\ Blank(text)) => chunks = <<>>

\* chunk_text has returned on a non-empty text of spaces and line breaks
C11_BlankReturned ==
    /\ Returned /\ Blank(text)
    /\ \E i \in DOMAIN text : text[i] = SP
    /\ \E i \in DOMAIN text : text[i] = NL
    /\ chunks = <<>>

ZeroStatistics ==
    [total_chunks |-> 0, total_tokens |-> 0, avg_tokens |-> 0,
     min_tokens |-> 0, max_tokens |-> 0]

\* C12: get_statistics on the empty chunk sequence returns the record whose
\* total_chunks, total_tokens, avg_tokens, min_tokens and max_tokens are all 0.
C12_EmptyStatistics ==
    chunks = <<>> => \A k \in DOMAIN stats_log : stats_log[k] = ZeroStatistics

\* get_statistics has returned for the empty sequence chunk_text returned
C12_EmptyStatisticsReturned ==
    /\ Returned /\ chunks = <<>>
    /\ stats_log # <<>>

\* the sum of the 'tokens' fields, counted one token at a time
TokenTotal(cs) ==
    Cardinality({p \in (DOMAIN cs) \X (1..Max({cs[i].tokens : i \in DOMAIN cs})) :
                    p[2] <= cs[p[1]].tokens})

\* C13: for a non-empty chunk sequence of n chunks get_statistics returns
\* total_chunks = n, total_tokens = the sum of the 'tokens' fields, min_tokens
\* and max_tokens = the smallest and the largest 'tokens' field, avg_tokens =
\* total_tokens / n rounded to two decimals, and so min_tokens <= avg_tokens
\* <= max_tokens.
C13_Statistics ==
    chunks # <<>> =>
        \A k \in DOMAIN stats_log :
            LET st == stats_log[k]
                n == Len(chunks)
            IN  /\ st.total_chunks = n
                /\ st.total_tokens = TokenTotal(chunks)
                /\ \E i \in DOMAIN chunks : chunks[i].tokens = st.min_tokens
                /\ \A i \in DOMAIN chunks : chunks[i].tokens >= st.min_tokens
                /\ \E i \in DOMAIN chunks : chunks[i].tokens = st.max_tokens
                /\ \A i \in DOMAIN chunks : chunks[i].tokens <= st.max_tokens
                /\ 2 * (st.avg_tokens * n - Hundredths * st.total_tokens) <= n
                /\ 2 * (Hundredths * st.total_tokens - st.avg_tokens * n) <= n
                /\ Hundredths * st.min_tokens <= st.avg_tokens
                /\ st.avg_tokens <= Hundredths * st.max_tokens

\* get_statistics has returned for three or more chunks of different sizes
\* whose average is not a whole number of hundredths
C13_StatisticsReturned ==
    /\ Returned /\ stats_log # <<>>
    /\ Len(chunks) >= 3
    /\ stats_log[1].min_tokens < stats_log[1].max_tokens
    /\ (Hundredths * stats_log[1].total_tokens) % Len(chunks) # 0

\* C14: get_statistics leaves the chunk sequence and the chunker's
\* configuration unchanged, and the record it returns is the record every
\* earlier call returned for the same chunk sequence, whatever was called in
\* between.
C14_StatisticsPure ==
    [][GetStatistics =>
          /\ chunks' = chunks
          /\ max_tokens' = max_tokens /\ overlap' = overlap
          /\ \A k \in DOMAIN stats_log :
                stats_log'[Len(stats_log')] = stats_log[k]]_vars

\* get_statistics has returned a second time for the same chunks, after
\* generate_faqs_batch has run over them and collected FAQs
C14_SecondCallAfterBatch ==
    /\ pc = "batch_done"
    /\ Len(stats_log) = 2
    /\ Len(chunks) >= 2
    /\ all_faqs # <<>>

Emitted ==
    chunks \o (IF pc \in {"sentences", "windows"} THEN large_chunks ELSE <<>>)
           \o (IF pc = "windows" THEN token_chunks ELSE <<>>)

IsPrefix(a, b) == Len(a) <= Len(b) /\ SubSeq(b, 1, Len(a)) = a

\* C16: once a chunk has been appended, its text, tokens and chunk_id never
\* change and it is never removed or reordered: at every step of a call, and
\* after its return, the chunks emitted so far are a prefix of the chunks
\* emitted after the step.
C16_EmittedStable ==
    [][(Running \/ Returned) => IsPrefix(Emitted, Emitted')]_vars

\* chunk_text has returned three or more chunks, some of which came through
\* a list of windows and some of which were appended before them by the
\* sentence loop or the section loop
C16_ListsReturned ==
    /\ Returned
    /\ Len(chunks) >= 3
    /\ \E i \in DOMAIN how : \E j \in DOMAIN how :
          /\ i < j
          /\ how[j].via = "window"
          /\ how[i].via \in {"sentence_before_large", "section_before_large"}

\* C17: two chunk_text calls on one TextChunker whose steps interleave in any
\* way: no step of either changes max_tokens or overlap, and each call returns
\* exactly the sequence it returns when it runs alone.
C17_ThreadsIndependent ==
    [][/\ pc # "new" => (max_tokens' = max_tokens /\ overlap' = overlap)
       /\ pc' = "done" => chunks' = ChunkTextAlone(text', max_tokens, overlap)
       /\ parked'.pc = "done" =>
             parked'.chunks = ChunkTextAlone(parked'.text, max_tokens, overlap)]_vars

\* both calls have returned two or more chunks, after a thread switch that
\* found both of them in the middle of their loops
C17_BothReturned ==
    /\ pc = "done" /\ parked.pc = "done"
    /\ interleaved
    /\ Len(chunks) >= 2 /\ Len(parked.chunks) >= 2
    /\ text # parked.text

\* C18: when the token codec fails on an encode or decode call during
\* chunk_text, the call ends with that same failure: it is not caught, not
\* replaced by another error, and no chunk sequence is returned.
C18_CodecFailurePropagates ==
    codec_error # "none" => (pc = "raised" /\ exc = codec_error)

\* the codec has failed in the window loop after chunks had been emitted
C18_FailedAfterChunks ==
    /\ pc = "raised"
    /\ Len(tokens) > 0 /\ start < Len(tokens)
    /\ token_chunks # <<>>
    /\ chunks # <<>>

\* the units occur in t one after the other, from unit k and position `from`
RECURSIVE InOrder(_, _, _, _)
InOrder(t, units, k, from) ==
    \/ k > Len(units)
    \/ \E i \in from..(Len(t) - Len(units[k]) + 1) :
          /\ SubSeq(t, i, i + Len(units[k]) - 1) = units[k]
          /\ InOrder(t, units, k + 1, i + Len(units[k]))

\* C19: _split_by_sections and _split_by_sentences return units that are all
\* non-empty and whitespace-trimmed, in the order they occur in the text, and
\* that hold all of the text that is not whitespace; a text with no two
\* consecutive line breaks yields at most one section, and a text with no
\* terminal punctuation followed by whitespace yields at most one sentence.
C19_Splitters ==
    call.fn \in {"_split_by_sections", "_split_by_sentences"} =>
        LET t == call.text
            units == call.result
        IN  /\ \A k \in DOMAIN units :
                  units[k] # <<>> /\ Strip(units[k]) = units[k]
            /\ InOrder(t, units, 1, 1)
            /\ NonSpace(Decode(units)) = NonSpace(t)
            /\ (call.fn = "_split_by_sections"
                   /\ ~ \E i \in 1..(Len(t) - 1) : t[i] = NL /\ t[i + 1] = NL)
                  => Len(units) <= 1
            /\ (call.fn = "_split_by_sentences"
                   /\ ~ \E i \in 1..(Len(t) - 1) :
                          t[i] \in Terminators /\ t[i + 1] \in Whitespace)
                  => Len(units) <= 1

\* _split_by_sections has returned two sections of a text that begins with
\* a blank line
C19_SectionsSplit ==
    /\ call.fn = "_split_by_sections"
    /\ Len(call.result) = 2
    /\ Len(call.text) >= 2 /\ call.text[1] = NL /\ call.text[2] = NL

\* the number of FAQs the first k generation calls contributed
Contributed(k) ==
    Sum([j \in 1..k |-> IF gen_calls[j].outcome.failed THEN 0
                        ELSE gen_calls[j].outcome.n])

\* C20: generate_faqs_batch makes exactly one generation call per chunk, in
\* chunk order; a chunk whose generation call fails contributes no FAQs, every
\* other chunk contributes the FAQs of its call, and every later chunk is
\* still processed.
C20_OneCallPerChunk ==
    pc \in {"batch", "batch_done"} =>
        /\ Len(gen_calls) = bi - 1
        /\ Len(gen_calls) <= Len(chunks)
        /\ pc = "batch_done" => Len(gen_calls) = Len(chunks)
        /\ \A k \in DOMAIN gen_calls :
              /\ gen_calls[k].index = k - 1
              /\ gen_calls[k].text = chunks[k].text
              /\ gen_calls[k].chunk_id = chunks[k].chunk_id
              /\ gen_calls[k].outcome.failed => Contributed(k) = Contributed(k - 1)
              /\ \A i \in (Contributed(k - 1) + 1)..Contributed(k) :
                    /\ i <= Len(all_faqs)
                    /\ all_faqs[i].chunk_id = chunks[k].chunk_id
        /\ Len(all_faqs) = Contributed(Len(gen_calls))

\* a batch over three chunks has returned: the generation failed for the
\* second chunk and gave a FAQ for the first and for the third
C20_FailureInTheMiddle ==
    /\ pc = "batch_done"
    /\ Len(chunks) = 3 /\ Len(gen_calls) = 3
    /\ gen_calls[2].outcome.failed
    /\ gen_calls[1].outcome.n = 1 /\ gen_calls[3].outcome.n = 1
    /\ Len(all_faqs) = 2

\* _split_large_section or _split_by_tokens is running under chunk_text
Splitting == pc \in {"sentences", "windows"}

\* C21: when chunk_text meets a section of more than max_tokens tokens, a
\* non-empty accumulator is emitted as one chunk before any chunk of that
\* section and the accumulator is then empty; while the section is being
\* split chunk_text takes no other section and emits nothing of its own, and
\* all the chunks of the section are added together, before the next section
\* is taken.
C21_OversizeOrder ==
    [][/\ (pc = "sections" /\ Splitting') =>
             /\ section_tokens > max_tokens
             /\ IF current_chunk # <<>>
                THEN chunks' = Append(chunks,
                         Chunk(Strip(current_chunk), current_tokens, Len(chunks)))
                ELSE chunks' = chunks
             /\ current_chunk' = <<>> /\ current_tokens' = 0
             /\ large_chunks' = <<>>
             /\ si' = si
       /\ Splitting =>
             /\ current_chunk' = <<>> /\ current_tokens' = 0
             /\ IF pc' = "sections"
                THEN chunks' = chunks \o large_chunks' /\ si' = si + 1
                ELSE chunks' = chunks /\ si' = si /\ Splitting']_vars

\* chunk_text has returned three or more chunks: the accumulator, emitted
\* when an oversized section was met, and after it the chunks of that section
C21_FlushedBeforeSplit ==
    /\ Returned
    /\ Len(chunks) >= 3
    /\ how[1].via = "section_before_large"
    /\ \A i \in 2..Len(chunks) : how[i].via \in {"window", "sentence_before_large",
                                                 "sentence_budget", "sentence_final"}

\* C22: at every step of chunk_text and of _split_large_section the running
\* token count of the accumulator is the codec's token count of the
\* accumulator, also after a unit was appended behind a join separator.
C22_CountSynced ==
    /\ pc \in {"sections", "sentences", "windows"} =>
           current_tokens = Count(current_chunk)
    /\ Splitting => large_current_tokens = Count(large_current_chunk)

\* u occurs in t as a contiguous run of characters
Contains(t, u) ==
    \E k \in 0..(Len(t) - Len(u)) : SubSeq(t, k + 1, k + Len(u)) = u

IsSuffix(u, t) ==
    Len(u) <= Len(t) /\ SubSeq(t, Len(t) - Len(u) + 1, Len(t)) = u

InSomeChunk(u) == \E c \in DOMAIN chunks : Contains(chunks[c].text, u)

\* at return every section that fits the budget, and every sentence that
\* fits the budget of a section that does not, is whole inside one chunk
WholeUnitsReturned ==
    \A i \in DOMAIN sections :
        IF Count(sections[i]) <= max_tokens
        THEN InSomeChunk(sections[i])
        ELSE LET ss == SplitBySentences(sections[i])
             IN  \A j \in DOMAIN ss :
                     Count(ss[j]) <= max_tokens => InSomeChunk(ss[j])

\* C23: a unit is split finer only when it exceeds the budget at its tier:
\* _split_large_section is entered only for a section of more than max_tokens
\* tokens and _split_by_tokens only for a sentence of more than max_tokens
\* tokens, on the encoding of that sentence; a section, or a sentence of an
\* oversized section, that the loop takes without splitting has at most
\* max_tokens tokens and goes whole to the end of the accumulator; and in
\* the returned list every such unit is found whole inside one chunk.
C23_SplitOnlyOverBudget ==
    [][/\ (pc = "sections" /\ Splitting') => section_tokens > max_tokens
       /\ (pc = "sentences" /\ pc' = "windows") =>
              /\ sentence_tokens > max_tokens
              /\ tokens' = Encode(sentence)
       /\ (pc = "sections" /\ si' = si + 1) =>
              /\ section_tokens <= max_tokens
              /\ IsSuffix(section, current_chunk')
       /\ (pc = "sentences" /\ sj' = sj + 1) =>
              /\ sentence_tokens <= max_tokens
              /\ IsSuffix(sentence, large_current_chunk')
       /\ Returned => WholeUnitsReturned]_vars

\* chunk_text has returned, under a valid configuration, the chunks of an
\* oversized section of which one sentence fitted the budget and another was
\* split by tokens
C23_BothTiersSplit ==
    /\ Returned /\ ValidConfig
    /\ \E i \in DOMAIN chunks : how[i].via = "window"
    /\ \E i \in DOMAIN chunks :
           how[i].via \in {"sentence_before_large", "sentence_budget", "sentence_final"}

\* C24: chunk_text takes the sections of the text one at a time, each once
\* and in input order; it returns only after the last section, emitting the
\* accumulator as the final chunk exactly when the accumulator is non-empty,
\* so that at return nothing accumulated is left unemitted, and no chunk is
\* emitted after the return.
C24_SinglePass ==
    [][/\ Running =>
             /\ sections = SplitBySections(text)
             /\ sections' = sections
             /\ si \in 1..(Len(sections) + 1)
             /\ si' \in {si, si + 1}
             /\ (si' = si + 1) => si <= Len(sections)
       /\ (Running /\ Returned') =>
             /\ pc = "sections" /\ si = Len(sections) + 1 /\ si' = si
             /\ IF current_chunk # <<>>
                THEN chunks' = Append(chunks,
                         Chunk(Strip(current_chunk), current_tokens, Len(chunks)))
                ELSE chunks' = chunks
             /\ current_chunk # <<>> =>
                    chunks'[Len(chunks')].text = Strip(current_chunk')
       /\ Returned => (chunks' = chunks /\ Returned')]_vars

\* chunk_text has returned after three sections, the last of them in the
\* final chunk and a statistics call made after the return
C24_FinalFlushReturned ==
    /\ Returned
    /\ Len(sections) = 3 /\ si = 4
    /\ Len(chunks) >= 2
    /\ how[Len(chunks)].via = "section_final"
    /\ stats_log # <<>>

TokenCounts(cs) == [i \in DOMAIN cs |-> cs[i].tokens]

\* C25: run side by side over the same units, the section loop of chunk_text
\* and the sentence loop of _split_large_section take the same decision at
\* every unit (emit and reset for an oversized unit, flush and seed with the
\* overlap, or append), keep the same running count and emit chunks with the
\* same token counts; a join separator costs one token in either loop.
C25_SameStateMachine ==
    /\ Count(<<NL, NL>>) = Count(<<SP>>)
    /\ twin.section_loop.decisions = twin.sentence_loop.decisions
    /\ twin.section_loop.current_tokens = twin.sentence_loop.current_tokens
    /\ TokenCounts(twin.section_loop.chunks) = TokenCounts(twin.sentence_loop.chunks)
    /\ Len(twin.section_loop.decisions) = Min({twin.k, Len(twin.units) + 2}) - 1 \/ twin.k = 0

\* both loops have ended after an oversized unit, an appended unit and a
\* unit that flushed the accumulator and was seeded with overlap text
C25_AllDecisionsTaken ==
    /\ ValidConfig /\ overlap >= 1
    /\ twin.k = Len(twin.units) + 2
    /\ twin.sentence_loop.decisions = <<"oversized", "append", "flush", "final">>
    /\ Len(twin.section_loop.chunks) >= 4

NotEmpty(c) == c.text # <<>> /\ c.tokens >= 1

\* C26: no chunk that chunk_text emits is empty: on every emission path,
\* the sentence-level flush that appends without a test included, a chunk that
\* a step adds under a valid configuration has a non-empty text and a
\* recorded token count of at least 1, and so has every chunk of a returned
\* list under any configuration.
C26_NoEmptyChunk ==
    [][/\ (ValidConfig /\ Running) =>
              \A i \in (Len(Emitted) + 1)..Len(Emitted') : NotEmpty(Emitted'[i])
       /\ Returned => \A i \in DOMAIN chunks : NotEmpty(chunks[i])]_vars

\* chunk_text has returned a chunk that the sentence loop saved, without a
\* test, when the next sentence exceeded the budget
C26_SentenceFlushReturned ==
    /\ Returned /\ ValidConfig
    /\ \E i \in DOMAIN chunks : how[i].via = "sentence_budget"

\* C27: under 0 <= overlap < max_tokens every window of _split_by_tokens
\* after the first holds at least one token beyond the end of the window
\* before it.  The window added by a step covers the tokens from start to
\* min(start + max_tokens, len(tokens)); the window before it ended at
\* min(start + overlap, len(tokens)).
C27_WindowsAddTokens ==
    [][(/\ ValidConfig
        /\ pc = "windows"
        /\ token_chunks # <<>>
        /\ Len(token_chunks') = Len(token_chunks) + 1) =>
            Min({WindowEnd(start), Len(tokens)}) > Min({start + overlap, Len(tokens)})]_vars

\* C28: in a generate_faqs_batch run over the chunks chunk_text returned,
\* every generated FAQ has a faq_id different from the faq_id of every other
\* FAQ of the run, and its chunk_id is the chunk_id of exactly one chunk.
C28_FaqIdsUnique ==
    pc \in {"batch", "batch_done"} =>
        /\ \A i, j \in DOMAIN all_faqs :
               i # j => all_faqs[i].faq_id # all_faqs[j].faq_id
        /\ \A i \in DOMAIN all_faqs :
               Cardinality({c \in DOMAIN chunks :
                               chunks[c].chunk_id = all_faqs[i].chunk_id}) = 1

SectionPaths == {"section_before_large", "section_budget", "section_final"}
SentencePaths == {"sentence_before_large", "sentence_budget", "sentence_final"}

\* the chunks emitted so far for the section being split, and their histories
SectionEmitted == large_chunks \o (IF pc = "windows" THEN token_chunks ELSE <<>>)
SectionEmittedHow == large_how \o (IF pc = "windows" THEN token_how ELSE <<>>)

\* some section of the text begins the text t
BeginsWithSection(t) == \E k \in DOMAIN sections : IsPrefix(sections[k], t)

\* some sentence of some section of the text begins the text t
BeginsWithSentence(t) ==
    \E k \in DOMAIN sections :
        LET ss == SplitBySentences(sections[k])
        IN  \E j \in DOMAIN ss : IsPrefix(ss[j], t)

\* in the returned list, an accumulator chunk of chunk_text behind a chunk of
\* an oversized section, and an accumulator chunk of _split_large_section
\* behind a token window, has no seed and begins with a unit of its own
NoSeedBehindSplit ==
    \A i \in 2..Len(chunks) :
        /\ (how[i].via \in SectionPaths /\ how[i - 1].via \notin SectionPaths) =>
               how[i].seed = <<>> /\ BeginsWithSection(chunks[i].text)
        /\ (how[i].via \in SentencePaths /\ how[i - 1].via = "window") =>
               how[i].seed = <<>> /\ BeginsWithSentence(chunks[i].text)

\* C29: the content of an oversized section shares no chunk with a
\* neighbouring section and no overlap crosses its boundaries.  While the
\* section is split the accumulator of chunk_text is empty, and the first
\* chunk emitted for the section has no overlap seed and begins with the
\* section's first sentence or, when that is oversized, is the section's
\* first max_tokens tokens; while a sentence is split by tokens the
\* accumulator of _split_large_section is empty.  In the returned list an
\* accumulator chunk of chunk_text that follows a chunk of an oversized
\* section has no seed and begins with a section, and an accumulator chunk of
\* _split_large_section that follows a token window has no seed and begins
\* with a sentence.
C29_NoOverlapAcrossOversized ==
    [][/\ Splitting' =>
              current_chunk' = <<>> /\ current_tokens' = 0 /\ seed' = <<>>
       /\ pc' = "windows" =>
              /\ large_current_chunk' = <<>> /\ large_current_tokens' = 0
              /\ large_seed' = <<>>
       /\ (Splitting /\ SectionEmitted = <<>> /\ SectionEmitted' # <<>>) =>
              /\ SectionEmittedHow'[1].seed = <<>>
              /\ IF Count(sentences[1]) <= max_tokens
                 THEN IsPrefix(sentences[1], SectionEmitted'[1].text)
                 ELSE SectionEmitted'[1].text =
                          Decode(PySlice(Encode(sections[si]), 0, max_tokens))
       /\ Returned => NoSeedBehindSplit]_vars

\* with a positive overlap, chunk_text has returned an accumulator chunk
\* right after the token windows of an oversized section
C29_SectionAfterWindows ==
    /\ Returned /\ ValidConfig /\ overlap >= 1
    /\ \E i \in 2..Len(chunks) :
           how[i].via \in SectionPaths /\ how[i - 1].via = "window"

\* the number of chunks in the history h that came from the paths ps
PathCount(h, ps) == Cardinality({i \in DOMAIN h : h[i].via \in ps})

\* the number of the first n units of us that fit the budget
FittingCount(us, n) ==
    Cardinality({k \in 1..n : k <= Len(us) /\ Count(us[k]) <= max_tokens})

Pending(accumulator) == IF accumulator # <<>> THEN 1 ELSE 0

\* the accumulator chunks emitted so far, with the one that a non-empty
\* accumulator will become
AccumulatorCount == PathCount(how, SectionPaths) + Pending(current_chunk)
LargeAccumulatorCount ==
    PathCount(large_how, SentencePaths) + Pending(large_current_chunk)

\* in the returned list every accumulator chunk holds, behind its overlap
\* prefix, a whole unit, and the accumulator chunks of chunk_text are no more
\* than the sections that fit the budget
FreshUnitsReturned ==
    /\ PathCount(how, SectionPaths) <= FittingCount(sections, Len(sections))
    /\ \A i \in DOMAIN chunks :
           /\ how[i].via \in SectionPaths => BeginsWithSection(LStrip(Fresh(i)))
           /\ how[i].via \in SentencePaths => BeginsWithSentence(LStrip(Fresh(i)))

\* C30: every chunk emitted from an accumulator, of chunk_text or of
\* _split_large_section, holds a whole unit that no earlier chunk holds.
\* Each loop starts with no accumulator chunk; the number of accumulator
\* chunks emitted so far, counting the non-empty accumulator, grows only by
\* one and only when the loop takes a unit that fits the budget, and the
\* accumulator then ends with that unit behind its overlap seed; the final
\* chunk is the accumulator counted already.  In the returned list the text
\* of every accumulator chunk behind its overlap prefix begins with a whole
\* unit, so no chunk is overlap text only, and the accumulator chunks are no
\* more than the units taken.
C30_FreshUnitPerChunk ==
    [][/\ (pc = "ready" /\ Running') => AccumulatorCount' = 0
       /\ (pc = "sections" /\ Splitting') => LargeAccumulatorCount' = 0
       /\ (Running /\ Running' /\ AccumulatorCount' # AccumulatorCount) =>
              /\ pc = "sections" /\ si' = si + 1
              /\ section_tokens <= max_tokens
              /\ AccumulatorCount' = AccumulatorCount + 1
              /\ IsSuffix(section, current_chunk')
              /\ Len(seed') + Len(section) <= Len(current_chunk')
       /\ (Splitting /\ Splitting' /\ LargeAccumulatorCount' # LargeAccumulatorCount) =>
              /\ pc = "sentences" /\ sj' = sj + 1
              /\ sentence_tokens <= max_tokens
              /\ LargeAccumulatorCount' = LargeAccumulatorCount + 1
              /\ IsSuffix(sentence, large_current_chunk')
              /\ Len(large_seed') + Len(sentence) <= Len(large_current_chunk')
       /\ (pc = "sentences" /\ pc' = "sections") =>
              PathCount(large_how', SentencePaths) = LargeAccumulatorCount
       /\ (Running /\ Returned') =>
              PathCount(how', SectionPaths) = AccumulatorCount
       /\ Returned => FreshUnitsReturned]_vars

\* chunk_text has returned accumulator chunks over three sections, the
\* later chunks seeded with overlap text of the chunk before
C30_SeededChunksReturned ==
    /\ Returned /\ ValidConfig /\ overlap >= 1
    /\ Len(sections) = 3 /\ Len(chunks) >= 2
    /\ \A i \in DOMAIN chunks : how[i].via \in SectionPaths
    /\ \A i \in 2..Len(chunks) : how[i].seed # <<>>

=============================================================================
